---- MODULE Spec2Model ----
(***************************************************************************)
(* The request interceptor pipeline of tokencheck-subscriptions: the       *)
(* actix-web middlewares (global limiter, credential extraction, API-key   *)
(* verification, quota enforcement against Redis, bearer-token             *)
(* verification of the secured scope, request/response logging) around a   *)
(* route handler.  One task per request; every `.await` of a middleware    *)
(* is a point where tasks of other requests interleave, so an action of    *)
(* the model is the code between two awaits.                               *)
(***************************************************************************)
EXTENDS Integers, Sequences, FiniteSets, TLC

VARIABLES clock, store, tat, keydb, logs, arrivals, is_dev, req

vars == <<clock, store, tat, keydb, logs, arrivals, is_dev, req>>

(***************************************************************************)
(* Bounds of the model.                                                    *)
(***************************************************************************)
MaxReqs == 3
MaxDay == 1
TicksPerSec == 2
DaysPerMonth == 2
DailyLimit == 1
MonthlyLimit == 5
PermitsPerSec == 1
MaxPipeReqs == 2

(***************************************************************************)
(* Time.  An instant is a number of ticks (a fraction of a second) since   *)
(* the epoch of the model; chrono's Utc::now() has sub-second precision.   *)
(***************************************************************************)
SecondsPerDay == 86400

TicksPerDay == SecondsPerDay * TicksPerSec

Max(a, b) == IF a >= b THEN a ELSE b

\* now.format("%Y-%m-%d"): the UTC date of an instant
DateOf(t) == t \div TicksPerDay

\* now.format("%Y-%m"): the UTC month of an instant
MonthOf(t) == DateOf(t) \div DaysPerMonth

\* The instants the clock of the model can show: on every day the first
\* instant, a fraction of a second later, and a fraction of a second before
\* the end of the day.
Offsets == {0, 1, TicksPerDay - 1}

Instants == {d * TicksPerDay + o : d \in 0..MaxDay, o \in Offsets}

\* TimeDelta::num_seconds(): whole seconds, truncated toward zero
num_seconds(ticks) ==
    IF ticks >= 0 THEN ticks \div TicksPerSec ELSE -((-ticks) \div TicksPerSec)

calculate_seconds_until_midnight(now) ==
    Max(num_seconds((DateOf(now) + 1) * TicksPerDay - now), 0)

(***************************************************************************)
(* The counter store (Redis).  A key is present with a value and possibly  *)
(* an expiry instant; a key whose expiry has passed is absent.             *)
(***************************************************************************)
Users == {"u1", "u2"}

\* the ids of API keys, the keys generated so far and the secret of each
KeyIds == {"k1", "k2"}

StoredKeys == {"k1"}

SecretOf(k) == <<"secret", k>>

NoExp == 0 - 1

Absent == [present |-> FALSE, val |-> 0, exp |-> NoExp]

\* a daily key that does not carry the date
daily_key_undated(user, now) == <<"quota", user, "daily", 0>>

\* a daily key that does not carry the user
daily_key_shared(user, now) == <<"quota", "u1", "daily", DateOf(now)>>

\* format!("quota:{}:daily:{}", user_id_str, date_str)
daily_key(user, now) == <<"quota", user, "daily", DateOf(now)>>

\* format!("quota:{}:monthly:{}", user_id_str, month_str)
monthly_key(user, now) == <<"quota", user, "monthly", MonthOf(now)>>

StoreKeys ==
    {<<"quota", u, "daily", d>> : u \in Users, d \in 0..MaxDay}
        \cup {<<"quota", u, "monthly", m>> : u \in Users, m \in 0..(MaxDay \div DaysPerMonth)}

Live(st, k, t) == st[k].present /\ (st[k].exp = NoExp \/ t < st[k].exp)

\* the value a GET would return at instant t (0 for an absent key)
Value(st, k, t) == IF Live(st, k, t) THEN st[k].val ELSE 0

\* INCR key: an absent key counts from 0 and has no expiry
RedisIncr(st, k, t) ==
    IF Live(st, k, t)
    THEN [st EXCEPT ![k].val = @ + 1]
    ELSE [st EXCEPT ![k] = [present |-> TRUE, val |-> 1, exp |-> NoExp]]

\* DECR key: an absent key counts from 0 and has no expiry
RedisDecr(st, k, t) ==
    IF Live(st, k, t)
    THEN [st EXCEPT ![k].val = @ - 1]
    ELSE [st EXCEPT ![k] = [present |-> TRUE, val |-> -1, exp |-> NoExp]]

\* EXPIRE key seconds: a timeout that is not positive deletes the key
RedisExpire(st, k, secs, t) ==
    IF ~Live(st, k, t) THEN [st EXCEPT ![k] = Absent]
    ELSE IF secs <= 0 THEN [st EXCEPT ![k] = Absent]
    ELSE [st EXCEPT ![k].exp = t + secs * TicksPerSec]

(***************************************************************************)
(* Subscription plans.  Stripe metadata values are strings; a string is a  *)
(* sequence of characters.                                                 *)
(***************************************************************************)
Digits == <<"0", "1", "2", "3", "4", "5", "6", "7", "8", "9">>

IsDigit(c) == \E i \in 1..10 : Digits[i] = c

DigitVal(c) == (CHOOSE i \in 1..10 : Digits[i] = c) - 1

RECURSIVE DecStr(_)
\* the decimal text of a number (how a limit is written in plan metadata)
DecStr(n) == IF n < 10 THEN <<Digits[n + 1]>> ELSE Append(DecStr(n \div 10), Digits[(n % 10) + 1])

RECURSIVE DecVal(_)
DecVal(s) == IF s = <<>> THEN 0 ELSE 10 * DecVal(SubSeq(s, 1, Len(s) - 1)) + DigitVal(s[Len(s)])

\* a parse that reads the leading digit and ignores what follows
parse_u64_atoi(s) ==
    [ok |-> TRUE, v |-> IF s # <<>> /\ IsDigit(s[1]) THEN DigitVal(s[1]) ELSE 0]

\* str::parse::<u64>(): decimal digits after an optional "+"
parse_u64(s) ==
    LET t == IF s # <<>> /\ s[1] = "+" THEN Tail(s) ELSE s
    IN  IF t # <<>> /\ \A i \in 1..Len(t) : IsDigit(t[i])
        THEN [ok |-> TRUE, v |-> DecVal(t)]
        ELSE [ok |-> FALSE, v |-> 0]

NoMeta == [some |-> FALSE, daily_api_limit |-> <<>>, monthly_api_limit |-> <<>>]

Meta(d, m) == [some |-> TRUE, daily_api_limit |-> d, monthly_api_limit |-> m]

\* the plans handed to QuotaRateLimiter::new, by plan id
plans ==
    [basic |-> Meta(DecStr(DailyLimit), DecStr(MonthlyLimit)),
     free |-> Meta(<<"0">>, <<"0">>),
     daily0 |-> Meta(<<"0">>, DecStr(MonthlyLimit)),
     monthly0 |-> Meta(DecStr(DailyLimit), <<"0">>),
     capped |-> Meta(DecStr(DailyLimit + 1), DecStr(DailyLimit)),
     bare |-> NoMeta,
     odd |-> Meta(<<"1", "k">>, DecStr(MonthlyLimit))]

PlanIds == DOMAIN plans

(***************************************************************************)
(* Errors and responses.                                                   *)
(***************************************************************************)
\* a JSON value: null, the empty object or an {"error": ...} object
\* whose text is pre ++ msg with the values who, a, b formatted into it
JNull == [t |-> "null", pre |-> "", msg |-> "", who |-> "", a |-> 0, b |-> 0]

JObj == [t |-> "obj", pre |-> "", msg |-> "", who |-> "", a |-> 0, b |-> 0]

JError(pre, e) == [t |-> "error", pre |-> pre, msg |-> e.msg, who |-> e.who, a |-> e.a, b |-> e.b]

\* a body is either the serialisation of a JSON value or raw bytes
DocBody(v) == [kind |-> "doc", val |-> v, bytes |-> <<>>]

RawBody(bs) == [kind |-> "raw", val |-> JNull, bytes |-> bs]

HeaderNames == {"content-type", "set-cookie", "location"}

NoHeaders == [h \in HeaderNames |-> <<>>]

JsonHeaders == [NoHeaders EXCEPT !["content-type"] = <<"application/json">>]

NoResp == [status |-> 0, headers |-> NoHeaders, body |-> RawBody(<<>>)]

\* HttpResponse::<Status>().json(value)
JsonResponse(status, v) == [status |-> status, headers |-> JsonHeaders, body |-> DocBody(v)]

AppError(kind, msg) == [kind |-> kind, msg |-> msg, who |-> "", a |-> 0, b |-> 0]

AppErrorWith(kind, msg, who, a, b) == [kind |-> kind, msg |-> msg, who |-> who, a |-> a, b |-> b]

NoError == AppError("", "")

InternalKinds == {"Database", "JWT", "Reqwest", "Stripe", "Internal"}

\* to_internal_json without the test of is_dev
to_internal_json_leaky(e, dev) == JError("", e)

to_internal_json(e, dev) ==
    IF dev THEN JError("", e) ELSE JError("", AppError(e.kind, "Internal server error"))

to_http_response(e, dev) ==
    CASE e.kind \in InternalKinds -> JsonResponse(500, to_internal_json(e, dev))
      [] e.kind = "Unauthorized" -> JsonResponse(401, JError("Authorization error: ", e))
      [] e.kind = "Forbidden" -> JsonResponse(403, JError("Resource conflict: ", e))
      [] e.kind = "NotFound" -> JsonResponse(404, JError("Resource not found: ", e))
      [] e.kind = "BadRequest" -> JsonResponse(400, JError("Bad request: ", e))
      [] e.kind = "TooManyRequests" -> JsonResponse(429, JError("Too Many Requests: ", e))

\* AppError::to_http_response of the subscriptions service: its AppError has
\* no TooManyRequests and its internal kinds answer the fixed message in
\* every build
subs_to_http_response(e) ==
    CASE e.kind \in InternalKinds ->
             JsonResponse(500, JError("", AppError(e.kind, "Internal server error")))
      [] e.kind = "Unauthorized" -> JsonResponse(401, JError("Authorization error: ", e))
      [] e.kind = "Forbidden" -> JsonResponse(403, JError("Resource conflict: ", e))
      [] e.kind = "NotFound" -> JsonResponse(404, JError("Resource not found: ", e))
      [] e.kind = "BadRequest" -> JsonResponse(400, JError("Bad request: ", e))


(***************************************************************************)
(* Credentials carried by a request.                                       *)
(***************************************************************************)
KeyClaims(user, plan, key, secret) ==
    [user_id |-> user, plan_id |-> plan, key_id |-> key, secret |-> secret]

NoKeyClaims == KeyClaims("", "", "", <<>>)

\* the value of an X-API-KEY header: its prefix, whether the rest is valid
\* base64, whether the decoded bytes are the JSON of a KeyClaims, and the claims
NoApiKey == [present |-> FALSE, pfx |-> "", b64 |-> FALSE, json |-> FALSE, claims |-> NoKeyClaims]

\* KeyClaims::to_key
to_key(c) == [present |-> TRUE, pfx |-> "sk_", b64 |-> TRUE, json |-> TRUE, claims |-> c]

Ok(c) == [tag |-> "ok", claims |-> c, err |-> NoError]

Err(c, e) == [tag |-> "err", claims |-> c, err |-> e]

NoKeyRes == [tag |-> "none", claims |-> NoKeyClaims, err |-> NoError]

\* KeyClaims::from_key
from_key(key) ==
    IF key.pfx # "sk_" THEN Err(NoKeyClaims, AppError("BadRequest", "Missing prefix 'sk_'"))
    ELSE IF ~key.b64 THEN Err(NoKeyClaims, AppError("BadRequest", "Base64 decode error"))
    ELSE IF ~key.json THEN Err(NoKeyClaims, AppError("BadRequest", "JSON parse error"))
    ELSE Ok(key.claims)

JwtClaims(user, customer, exp) == [user_id |-> user, stripe_customer_id |-> customer, exp |-> exp]

NoJwtClaims == JwtClaims("", "", 0)

\* the value of an Authorization header: its scheme and, for a bearer token,
\* whether it is a well-formed JWT, whether its signature is made with the
\* configured secret, and its claims
NoAuth == [scheme |-> "", wellformed |-> FALSE, signed |-> FALSE, claims |-> NoJwtClaims]

Bearer(wellformed, signed, c) ==
    [scheme |-> "Bearer", wellformed |-> wellformed, signed |-> signed, claims |-> c]

\* Validation::default(): seconds of leeway granted to an expired token
Leeway == 60

NoJwtRes == [tag |-> "none", claims |-> NoJwtClaims, err |-> NoError]

\* jsonwebtoken::decode with Validation::default(): the token must parse,
\* carry a signature made with the secret and not be expired
validate_jwt(token, now) ==
    IF ~token.wellformed THEN Err(NoJwtClaims, AppError("JWT", "InvalidToken"))
    ELSE IF ~token.signed THEN Err(NoJwtClaims, AppError("JWT", "InvalidSignature"))
    ELSE IF token.claims.exp + Leeway < num_seconds(now)
         THEN Err(NoJwtClaims, AppError("JWT", "ExpiredSignature"))
    ELSE Ok(token.claims)

(***************************************************************************)
(* A request and its task.                                                 *)
(***************************************************************************)
Reqs == 1..MaxReqs

\* argon2 hash of a secret (common::misc::hash_str), the salt left out
hash_str(secret) == <<"argon2", secret>>

\* a row of api_keys: its hashed secret and its status
KeyRecord(secret, status) == [present |-> TRUE, key_encrypted |-> hash_str(secret), status |-> status]

NoKeyRecord == [present |-> FALSE, key_encrypted |-> <<>>, status |-> ""]

\* the request before it has arrived
IdleReq ==
    [pc |-> "idle", chain |-> <<>>, pos |-> 0, seq |-> 0,
     path |-> <<>>, auth |-> NoAuth, apikey |-> NoApiKey, payload |-> <<>>,
     sent |-> <<>>, ext_jwt |-> NoJwtRes, ext_key |-> NoKeyRes, ext_token |-> NoJwtRes,
     ran |-> <<>>, now |-> 0, count |-> 0, limit |-> 0, seen |-> NoKeyRecord,
     log_user |-> "", log_key |-> "", request_body |-> JNull, audit |-> "",
     err |-> NoError, via |-> "",
     rej |-> NoResp, inner |-> NoResp, resp |-> NoResp]

\* srv.call(req): the next stage of the chain, the route handler after the last
Forward(q) ==
    LET n == q.pos + 1
        stage == IF n > Len(q.chain) THEN "handler" ELSE q.chain[n]
    IN  [q EXCEPT !.pos = n, !.pc = stage, !.ran = Append(@, stage)]

\* a response travels back through the stages that called this one; of the
\* stages only the logger acts on the response of its inner service
Return(q, response) ==
    IF \E i \in 1..(q.pos - 1) : i <= Len(q.chain) /\ q.chain[i] = "logger"
    THEN [q EXCEPT !.pc = "logger_after", !.inner = response]
    ELSE [q EXCEPT !.pc = "done", !.resp = response]

\* req.error_response(err) / req.into_response(response): the stage answers
\* itself instead of calling its inner service
Reject(q, response) == Return([q EXCEPT !.rej = response], response)

\* common::key::get_key_claims_or_error
get_key_claims_or_error(q, dev) ==
    IF q.ext_key.tag = "ok" THEN [ok |-> TRUE, claims |-> q.ext_key.claims, resp |-> NoResp]
    ELSE IF q.ext_key.tag = "err"
         THEN [ok |-> FALSE, claims |-> NoKeyClaims, resp |-> to_http_response(q.ext_key.err, dev)]
    ELSE [ok |-> FALSE, claims |-> NoKeyClaims,
          resp |-> to_http_response(AppError("Unauthorized", "No API key provided"), dev)]

\* common::jwt::get_jwt_claims_or_error
get_jwt_claims_or_error(q, dev) ==
    IF q.ext_jwt.tag = "ok" THEN [ok |-> TRUE, claims |-> q.ext_jwt.claims, resp |-> NoResp]
    ELSE IF q.ext_jwt.tag = "err"
         THEN [ok |-> FALSE, claims |-> NoJwtClaims, resp |-> to_http_response(q.ext_jwt.err, dev)]
    ELSE [ok |-> FALSE, claims |-> NoJwtClaims,
          resp |-> to_http_response(AppError("Unauthorized", "No authorization token provided"), dev)]


(***************************************************************************)
(* The environment: arrival of a request and the passing of time.          *)
(***************************************************************************)
\* A request arrives with the chain of stages its route is wrapped in, its
\* headers and what stages outside the chain have put into its extensions,
\* and enters the first stage.
Arrive(r, Arrivals) ==
    /\ req[r].pc = "idle"
    /\ \A o \in Reqs : o < r => req[o].pc # "idle"
    /\ \E a \in Arrivals :
         req' = [req EXCEPT ![r] =
                    Forward([IdleReq EXCEPT !.chain = a.chain, !.path = a.path,
                                            !.auth = a.auth, !.apikey = a.apikey,
                                            !.ext_key = a.ext_key,
                                            !.payload = a.payload,
                                            !.sent = a.payload,
                                            !.seq = arrivals + 1])]
    /\ arrivals' = arrivals + 1
    /\ UNCHANGED <<clock, store, tat, keydb, logs, is_dev>>

Tick ==
    /\ \E t \in Instants : t > clock /\ clock' = t
    /\ UNCHANGED <<store, tat, keydb, logs, arrivals, is_dev, req>>

(***************************************************************************)
(* ExtractionMiddlewareService::call                                       *)
(***************************************************************************)
Extractor(r) ==
    /\ req[r].pc = "extractor"
    /\ LET q == req[r]
           j == IF q.auth.scheme = "Bearer" THEN validate_jwt(q.auth, clock) ELSE NoJwtRes
           k == IF q.apikey.present THEN from_key(q.apikey) ELSE NoKeyRes
       IN  req' = [req EXCEPT ![r] = Forward([q EXCEPT !.ext_jwt = j, !.ext_key = k])]
    /\ UNCHANGED <<clock, store, tat, keydb, logs, arrivals, is_dev>>

(***************************************************************************)
(* QuotaRateLimitingMiddleware::call                                       *)
(***************************************************************************)
\* the outcomes of a round trip to the store
StoreOutcomes(faulty) == IF faulty THEN {"ok", "fail"} ELSE {"ok"}

\* the outcomes of a query to the database
DbOutcomes(faulty) == IF faulty THEN {"ok", "fail"} ELSE {"ok"}

\* an enforcer that skips the check only when both limits are zero
unlimited_both(d, m) == d = 0 /\ m = 0

\* line 133: a limit of zero stands for no limit
unlimited(d, m) == d = 0 \/ m = 0

\* an enforcer that takes every plan for one with limits
no_limits_never(meta) == FALSE

\* lines 111 and 124-130: a plan without metadata has no limits
no_limits(meta) == ~meta.some

\* lines 93-163: up to the first store command
QuotaEnterTo(q, conn, now, dev) ==
    LET kc == get_key_claims_or_error(q, dev)
        plan_id == kc.claims.plan_id
        meta == plans[plan_id]
        d == parse_u64(meta.daily_api_limit)
        m == parse_u64(meta.monthly_api_limit)
    IN  IF ~kc.ok THEN Forward(q)
        ELSE IF plan_id \notin PlanIds
             THEN Reject(q, to_http_response(
                     AppErrorWith("Internal", "Plan ID from key not found in configured plans.",
                                  plan_id, 0, 0), dev))
        ELSE IF no_limits(meta) THEN Forward(q)
        ELSE IF ~(d.ok /\ m.ok)
             THEN Reject(q, to_http_response(
                     AppErrorWith("Internal", "Failed to parse limits for plan ID", plan_id, 0, 0), dev))
        ELSE IF unlimited(d.v, m.v) THEN Forward(q)
        ELSE IF conn = "fail"
             THEN Reject(q, to_http_response(
                     AppError("Internal", "Failed to get Redis connection"), dev))
        ELSE [q EXCEPT !.pc = "q_incr", !.now = now, !.limit = d.v]

QuotaEnter(r, faulty) ==
    /\ req[r].pc = "quota"
    /\ \E conn \in StoreOutcomes(faulty) :
         req' = [req EXCEPT ![r] = QuotaEnterTo(req[r], conn, clock, is_dev)]
    /\ UNCHANGED <<clock, store, tat, keydb, logs, arrivals, is_dev>>

QuotaUser(q) == q.ext_key.claims.user_id

\* lines 183-184: is the daily limit exceeded
over_limit(count, limit) == count > limit

\* lines 174-201: what follows the reply to the daily INCR
AfterDailyIncr(q, count) ==
    IF count = 1 THEN "q_expire"
    ELSE IF over_limit(count, q.limit) THEN "q_decr"
    ELSE "q_monthly"

\* lines 171-172: INCR of the daily counter; a reply that is no u64 is an error
QuotaIncrDaily(r, faulty) ==
    /\ req[r].pc = "q_incr"
    /\ \E o \in StoreOutcomes(faulty) :
         LET q == req[r]
             k == daily_key(QuotaUser(q), q.now)
             st == IF o = "ok" THEN RedisIncr(store, k, clock) ELSE store
             count == st[k].val
         IN  /\ store' = st
             /\ req' = [req EXCEPT ![r] =
                   IF o = "fail" \/ count < 0
                   THEN Reject(q, to_http_response(
                           AppErrorWith("Internal", "Redis error incrementing daily count for key",
                                        QuotaUser(q), 0, 0), is_dev))
                   ELSE [q EXCEPT !.count = count, !.pc = AfterDailyIncr(q, count)]]
    /\ UNCHANGED <<clock, tat, keydb, logs, arrivals, is_dev>>

\* lines 177-181: EXPIRE of a counter this request created; its result is dropped
QuotaExpire(r, faulty) ==
    /\ req[r].pc = "q_expire"
    /\ \E o \in StoreOutcomes(faulty) :
         LET q == req[r]
             k == daily_key(QuotaUser(q), q.now)
         IN  /\ store' = IF o = "ok"
                         THEN RedisExpire(store, k, calculate_seconds_until_midnight(q.now), clock)
                         ELSE store
             /\ req' = [req EXCEPT ![r].pc =
                          IF over_limit(q.count, q.limit) THEN "q_decr" ELSE "q_monthly"]
    /\ UNCHANGED <<clock, tat, keydb, logs, arrivals, is_dev>>

\* lines 186-187: the compensating DECR of the daily counter
compensate(st, k, t) == RedisDecr(st, k, t)

\* lines 184-193: the compensating DECR, its result dropped, and the 429
QuotaDecr(r, faulty) ==
    /\ req[r].pc = "q_decr"
    /\ \E o \in StoreOutcomes(faulty) :
         LET q == req[r]
             k == daily_key(QuotaUser(q), q.now)
         IN  /\ store' = IF o = "ok" THEN compensate(store, k, clock) ELSE store
             /\ req' = [req EXCEPT ![r] =
                   Reject(q, to_http_response(
                       AppErrorWith("TooManyRequests", "Daily limit exceeded for key",
                                    QuotaUser(q), q.count, q.limit), is_dev))]
    /\ UNCHANGED <<clock, tat, keydb, logs, arrivals, is_dev>>

\* lines 205-257: INCR of the monthly counter, its result only logged, and
\* the call of the inner service
QuotaIncrMonthly(r, faulty) ==
    /\ req[r].pc = "q_monthly"
    /\ \E o \in StoreOutcomes(faulty) :
         LET q == req[r]
             k == monthly_key(QuotaUser(q), q.now)
         IN  /\ store' = IF o = "ok" THEN RedisIncr(store, k, clock) ELSE store
             /\ req' = [req EXCEPT ![r] = Forward(q)]
    /\ UNCHANGED <<clock, tat, keydb, logs, arrivals, is_dev>>

\* lines 142-257: the task of a request is dropped at one of its awaits (the
\* client has gone); what it has done to the store stays, what it had still
\* to do is never done, and no response is sent
Cancel(r) ==
    /\ req[r].pc \in {"q_incr", "q_expire", "q_decr", "q_monthly", "handler"}
    /\ req' = [req EXCEPT ![r].pc = "aborted"]
    /\ UNCHANGED <<clock, store, tat, keydb, logs, arrivals, is_dev>>

(***************************************************************************)
(* GlobalLimiterService::call.  The limiter is governor's GCRA with a      *)
(* quota of PermitsPerSec cells per second: a cell every 1/PermitsPerSec   *)
(* seconds and a burst of PermitsPerSec.  Its state is the theoretical     *)
(* arrival time of the next cell, 0 while no cell has been let through;    *)
(* limiter time is counted in 1/PermitsPerSec of a tick, so that the       *)
(* interval between two cells is TicksPerSec units.                        *)
(***************************************************************************)
GcraT == TicksPerSec

GcraTau == GcraT * PermitsPerSec

\* a limiter that lets every request through
check_open(state, now) == [ok |-> TRUE, tat |-> state]

\* limiter.check() at instant now
check(state, now) ==
    LET t0 == now * PermitsPerSec
        cur == IF state = 0 THEN t0 + GcraT ELSE state
        earliest_time == Max(cur - GcraTau, 0)
    IN  IF t0 < earliest_time
        THEN [ok |-> FALSE, tat |-> state]
        ELSE [ok |-> TRUE, tat |-> Max(cur, t0) + GcraT]

\* lines 61-76: the check, made at the instant the limiter reads from its
\* clock, and what follows it
Global(r) ==
    /\ req[r].pc = "global"
    /\ LET g == check(tat, clock)
           q == [req[r] EXCEPT !.now = clock]
       IN  /\ tat' = g.tat
           /\ req' = [req EXCEPT ![r] =
                 IF g.ok THEN Forward(q)
                 ELSE Reject(q, to_http_response(
                         AppError("TooManyRequests", "Server overloaded. Please try again later."),
                         is_dev))]
    /\ UNCHANGED <<clock, store, keydb, logs, arrivals, is_dev>>

(***************************************************************************)
(* KeyMiddlewareService::call and the revocation of a key                  *)
(***************************************************************************)
\* Argon2::verify_password
verify_password(secret, hash) == hash = hash_str(secret)

\* db::key::get_key_by_id: the row with the id, whatever its status; no row
\* and a failed query are both an error
get_key_by_id(db, key_id, o) ==
    IF o = "fail" THEN [NoKeyRecord EXCEPT !.status = "error"]
    ELSE IF key_id \in DOMAIN db /\ db[key_id].present THEN db[key_id]
    ELSE NoKeyRecord

\* lines 66-71: the key claims of the extensions, or their error as the answer
KeyEnter(r) ==
    /\ req[r].pc = "key"
    /\ LET q == req[r]
           kc == get_key_claims_or_error(q, is_dev)
       IN  req' = [req EXCEPT ![r] =
             IF kc.ok THEN [q EXCEPT !.pc = "key_lookup"] ELSE Reject(q, kc.resp)]
    /\ UNCHANGED <<clock, store, tat, keydb, logs, arrivals, is_dev>>

\* lines 72-93: the row of the key, the comparison of the secret with its hash
KeyLookup(r, faulty) ==
    /\ req[r].pc = "key_lookup"
    /\ \E o \in DbOutcomes(faulty) :
         LET q == req[r]
             key_record == get_key_by_id(keydb, q.ext_key.claims.key_id, o)
             p == [q EXCEPT !.seen = key_record]
         IN  req' = [req EXCEPT ![r] =
               IF key_record.present /\ verify_password(q.ext_key.claims.secret, key_record.key_encrypted)
               THEN Forward(p)
               ELSE Reject(p, to_http_response(AppError("BadRequest", "Invalid key"), is_dev))]
    /\ UNCHANGED <<clock, store, tat, keydb, logs, arrivals, is_dev>>

\* post_revoke: update_key_status(key_id, "revoked")
Revoke(k) ==
    /\ keydb[k].present
    /\ keydb[k].status = "active"
    /\ keydb' = [keydb EXCEPT ![k].status = "revoked"]
    /\ UNCHANGED <<clock, store, tat, logs, arrivals, is_dev, req>>

(***************************************************************************)
(* Routing.  A path is the sequence of the pieces of its text, as it is    *)
(* written in the request line; a piece can hold percent-encoded letters.  *)
(***************************************************************************)
SecuredPrefix == <<"/", "api", "/", "secured">>

\* the text a piece stands for once its percent-encoded letters are decoded
decode_piece(p) == IF p = "%73ecured" THEN "secured" ELSE p

\* the path the router matches: the path of the request line with its
\* percent-encoded letters decoded
requote(path) == [i \in 1..Len(path) |-> decode_piece(path[i])]

\* str::contains
contains(s, pat) ==
    \E i \in 0..(Len(s) - Len(pat)) : SubSeq(s, i + 1, i + Len(pat)) = pat

\* auth.rs line 154: the paths the middleware asks a token for
is_secured_path(path) == contains(path, SecuredPrefix)

\* a scope matches the paths that begin with its prefix at a segment boundary
in_scope(path, prefix) ==
    /\ Len(path) >= Len(prefix)
    /\ SubSeq(path, 1, Len(prefix)) = prefix
    /\ (Len(path) = Len(prefix) \/ path[Len(prefix) + 1] = "/")

\* lines 44-48: the paths served by the scope /api/secured
routed_secured(path) == in_scope(requote(path), SecuredPrefix)

\* main.rs lines 33-54: the logger wraps the application and the
\* authentication middleware wraps the scope /api/secured
Route(path) ==
    IF routed_secured(path) THEN <<"logger", "auth">> ELSE <<"logger">>

(***************************************************************************)
(* AuthMiddlewareService::call                                             *)
(***************************************************************************)
JErrorText(msg) == JError("", AppError("", msg))

\* the outcomes of a call to the authentication service
ServiceOutcomes(faulty) == IF faulty THEN {"ok", "fail"} ELSE {"ok"}

\* AuthClient::validate_token: the service verifies the token; a transport
\* error or an answer that is no success is an error
validate_token(token, net, now) ==
    IF net = "ok" THEN validate_jwt(token, now)
    ELSE Err(NoJwtClaims, AppError("Reqwest", "error sending request"))

\* an answer that tells what was wrong with the token
leaky_token_response(e) == JsonResponse(401, JErrorText(e.msg))

\* lines 195-201: the answer to a token the service did not accept
invalid_token_response(e) == JsonResponse(401, JErrorText("Invalid token"))

\* lines 146-171 and 202-208: the path check and the extraction of the token
AuthEnter(r) ==
    /\ req[r].pc = "auth"
    /\ LET q == req[r]
       IN  req' = [req EXCEPT ![r] =
             IF ~is_secured_path(q.path) THEN Forward(q)
             ELSE IF q.auth.scheme # "Bearer"
                  THEN Reject(q, JsonResponse(401, JErrorText("No authorization token provided")))
             ELSE [q EXCEPT !.pc = "auth_validate"]]
    /\ UNCHANGED <<clock, store, tat, keydb, logs, arrivals, is_dev>>

\* lines 182-201: the answer of the authentication service
AuthValidate(r, faulty) ==
    /\ req[r].pc = "auth_validate"
    /\ \E net \in ServiceOutcomes(faulty) :
         LET q == req[r]
             v == validate_token(q.auth, net, clock)
         IN  req' = [req EXCEPT ![r] =
               IF v.tag = "ok"
               THEN Forward([q EXCEPT !.ext_token = v, !.now = clock])
               ELSE Reject([q EXCEPT !.now = clock], invalid_token_response(v.err))]
    /\ UNCHANGED <<clock, store, tat, keydb, logs, arrivals, is_dev>>

(***************************************************************************)
(* LoggerMiddlewareService::call                                           *)
(***************************************************************************)
\* a drain that keeps the last chunk only
last_chunk(chunks) == IF chunks = <<>> THEN <<>> ELSE chunks[Len(chunks)]

RECURSIVE Concat(_)
\* extract_body: the chunks of the payload one after the other
Concat(chunks) == IF chunks = <<>> THEN <<>> ELSE Head(chunks) \o Concat(Tail(chunks))

\* serde_json::from_slice(..).unwrap_or(Value::Null) of the bytes of a request
parse_bytes(bs) == IF bs = <<"{", "}">> THEN JObj ELSE JNull

\* serde_json::from_slice(..).unwrap_or(Value::Null) of the bytes of a response
parse_body(body) == IF body.kind = "doc" THEN body.val ELSE JNull

\* lines 161-164: a builder given every header of the response with
\* insert_header, which replaces the values the name had
rebuild_headers(h) == [n \in HeaderNames |-> IF h[n] = <<>> THEN <<>> ELSE <<h[n][Len(h[n])]>>]

\* lines 154-166: the response built from the drained one
rebuild(res) == [status |-> res.status, headers |-> rebuild_headers(res.headers), body |-> res.body]

\* a row that takes every request for a success
Log_success(r, q, res) ==
    [rid |-> r, path |-> q.path, status_code |-> 200,
     user_id |-> q.log_user, key_id |-> q.log_key,
     request_body |-> q.request_body, response_body |-> parse_body(res.body)]

\* lines 221-236: the row handed to insert_log (rid names the request the
\* row was written for)
Log(r, q, res) ==
    [rid |-> r, path |-> q.path, status_code |-> res.status,
     user_id |-> q.log_user, key_id |-> q.log_key,
     request_body |-> q.request_body, response_body |-> parse_body(res.body)]

PayloadOutcomes(faulty) == IF faulty THEN {"ok", "fail"} ELSE {"ok"}

\* the answer to a request whose payload stream failed
PayloadErrorResponse ==
    [status |-> 400, headers |-> [NoHeaders EXCEPT !["content-type"] = <<"text/plain">>],
     body |-> RawBody(<<"payload error">>)]

\* lines 98-130: the claims of the extensions, the payload drained, parsed
\* and put back as one chunk, and the call of the inner service
LoggerBefore(r, faulty) ==
    /\ req[r].pc = "logger"
    /\ \E o \in PayloadOutcomes(faulty) :
         LET q == req[r]
             jwt == get_jwt_claims_or_error(q, is_dev)
             key == get_key_claims_or_error(q, is_dev)
             body_bytes == Concat(q.payload)
         IN  req' = [req EXCEPT ![r] =
               IF o = "fail" THEN Return(q, PayloadErrorResponse)
               ELSE Forward([q EXCEPT
                      !.log_user = IF jwt.ok THEN jwt.claims.user_id
                                   ELSE IF key.ok THEN key.claims.user_id ELSE "",
                      !.log_key = IF key.ok THEN key.claims.key_id ELSE "",
                      !.request_body = parse_bytes(body_bytes),
                      !.payload = <<body_bytes>>])]
    /\ UNCHANGED <<clock, store, tat, keydb, logs, arrivals, is_dev>>

\* lines 133-240: the response of the inner service drained and built anew,
\* the row inserted, and the new response returned; an insert that fails
\* leaves the middleware through `?`
LoggerAfter(r, faulty) ==
    /\ req[r].pc = "logger_after"
    /\ \E o \in DbOutcomes(faulty) :
         LET q == req[r]
             res == rebuild(q.inner)
         IN  /\ logs' = IF o = "ok" THEN Append(logs, Log(r, q, res)) ELSE logs
             /\ req' = [req EXCEPT ![r] =
                   IF o = "ok"
                   THEN [q EXCEPT !.pc = "done", !.audit = "ok", !.resp = res]
                   ELSE [q EXCEPT !.pc = "done", !.audit = "fail",
                                  !.resp = to_http_response(AppError("Database", "insert_log"), is_dev)]]
    /\ UNCHANGED <<clock, store, tat, keydb, arrivals, is_dev>>

(***************************************************************************)
(* The route handler: an opaque downstream service that answers.           *)
(***************************************************************************)
Ok200 == JsonResponse(200, JObj)

Handler(r, Responses) ==
    /\ req[r].pc = "handler"
    /\ \E a \in Responses : req' = [req EXCEPT ![r] = Return(req[r], a)]
    /\ UNCHANGED <<clock, store, tat, keydb, logs, arrivals, is_dev>>

\* a handler returns Err(AppError): actix answers with the error's
\* ResponseError::error_response, which is to_http_response of the crate
\* the handler belongs to
HandlerFails(r, Errors) ==
    /\ req[r].pc = "handler"
    /\ \E f \in Errors :
         LET q == [req[r] EXCEPT !.err = f.err, !.via = f.via]
             response == IF f.via = "common" THEN to_http_response(f.err, is_dev)
                                             ELSE subs_to_http_response(f.err)
         IN  req' = [req EXCEPT ![r] = Return(q, response)]
    /\ UNCHANGED <<clock, store, tat, keydb, logs, arrivals, is_dev>>

(***************************************************************************)
(* The quota enforcer alone around the handler, for the requests of one    *)
(* user on the metered plan, the store never failing.                      *)
(***************************************************************************)
InitCommon ==
    /\ clock = 0
    /\ store = [k \in StoreKeys |-> Absent]
    /\ tat = 0
    /\ keydb = [k \in KeyIds |-> IF k \in StoredKeys THEN KeyRecord(SecretOf(k), "active") ELSE NoKeyRecord]
    /\ logs = <<>>
    /\ arrivals = 0
    /\ req = [r \in Reqs |-> IdleReq]

QuotaChain == <<"quota">>

\* a request as the extractor hands it on: the key of the header is parsed
Extracted(chain, key) ==
    [chain |-> chain, path |-> <<"/", "api", "/", "check">>, auth |-> NoAuth, payload |-> <<>>,
     apikey |-> key, ext_key |-> IF key.present THEN from_key(key) ELSE NoKeyRes]

QuotaArrivals == {Extracted(QuotaChain, to_key(KeyClaims("u1", "basic", "k1", SecretOf("k1"))))}

InitQuota == InitCommon /\ is_dev = FALSE

NextQuota ==
    \/ \E r \in Reqs : Arrive(r, QuotaArrivals)
    \/ \E r \in Reqs : QuotaEnter(r, FALSE)
    \/ \E r \in Reqs : QuotaIncrDaily(r, FALSE)
    \/ \E r \in Reqs : QuotaExpire(r, FALSE)
    \/ \E r \in Reqs : QuotaDecr(r, FALSE)
    \/ \E r \in Reqs : QuotaIncrMonthly(r, FALSE)
    \/ \E r \in Reqs : Handler(r, {Ok200})
    \/ Tick

SpecQuota == InitQuota /\ [][NextQuota]_vars


\* the same, the requests passing one at a time
ArriveSeq(r, Arrivals) ==
    /\ \A o \in Reqs : req[o].pc \in {"idle", "done"}
    /\ Arrive(r, Arrivals)

\* at most MaxPipeReqs requests, one at a time
ArrivePipe(r, Arrivals) ==
    /\ r <= MaxPipeReqs
    /\ ArriveSeq(r, Arrivals)

NextQuotaSeq ==
    \/ \E r \in Reqs : ArriveSeq(r, QuotaArrivals)
    \/ \E r \in Reqs : QuotaEnter(r, FALSE)
    \/ \E r \in Reqs : QuotaIncrDaily(r, FALSE)
    \/ \E r \in Reqs : QuotaExpire(r, FALSE)
    \/ \E r \in Reqs : QuotaDecr(r, FALSE)
    \/ \E r \in Reqs : QuotaIncrMonthly(r, FALSE)
    \/ \E r \in Reqs : Handler(r, {Ok200})
    \/ Tick

SpecQuotaSeq == InitQuota /\ [][NextQuotaSeq]_vars

\* at most MaxPipeReqs requests, concurrently, every round trip to the store
\* able to fail and every task able to be dropped
NextQuotaFaults ==
    \/ \E r \in 1..MaxPipeReqs : Arrive(r, QuotaArrivals)
    \/ \E r \in Reqs : QuotaEnter(r, TRUE)
    \/ \E r \in Reqs : QuotaIncrDaily(r, TRUE)
    \/ \E r \in Reqs : QuotaExpire(r, TRUE)
    \/ \E r \in Reqs : QuotaDecr(r, TRUE)
    \/ \E r \in Reqs : QuotaIncrMonthly(r, TRUE)
    \/ \E r \in Reqs : Handler(r, {Ok200})
    \/ \E r \in Reqs : Cancel(r)
    \/ Tick

SpecQuotaFaults == InitQuota /\ [][NextQuotaFaults]_vars

\* requests of every kind the enforcer tells apart: no X-API-KEY header, a
\* header that is no envelope, and envelopes naming a metered plan, plans
\* with a limit of zero, a plan without metadata, a plan whose limit is no
\* number and a plan that is not configured
PlanKey(user, plan) == to_key(KeyClaims(user, plan, "k1", SecretOf("k1")))

PlanArrivals ==
    {Extracted(QuotaChain, k) :
        k \in {NoApiKey, [PlanKey("u1", "basic") EXCEPT !.b64 = FALSE]}
               \cup {PlanKey("u1", pl) : pl \in PlanIds \cup {"gone"}}}

\* at most MaxPipeReqs of them, concurrently, the store able to fail
NextQuotaPlans ==
    \/ \E r \in 1..MaxPipeReqs : Arrive(r, PlanArrivals)
    \/ \E r \in Reqs : QuotaEnter(r, TRUE)
    \/ \E r \in Reqs : QuotaIncrDaily(r, TRUE)
    \/ \E r \in Reqs : QuotaExpire(r, TRUE)
    \/ \E r \in Reqs : QuotaDecr(r, TRUE)
    \/ \E r \in Reqs : QuotaIncrMonthly(r, TRUE)
    \/ \E r \in Reqs : Handler(r, {Ok200})
    \/ Tick

SpecQuotaPlans == InitQuota /\ [][NextQuotaPlans]_vars

(***************************************************************************)
(* The application of main.rs: the logger around the router, the           *)
(* authentication middleware around the secured scope.  Requests pass one  *)
(* at a time; the authentication service and the log table can fail.       *)
(***************************************************************************)
\* a token that expires Leeway seconds into the first day
EarlyToken == Bearer(TRUE, TRUE, JwtClaims("u1", "cus_1", 0))

Tokens ==
    {NoAuth,
     [NoAuth EXCEPT !.scheme = "Basic"],
     Bearer(FALSE, FALSE, NoJwtClaims),
     Bearer(TRUE, FALSE, JwtClaims("u1", "cus_1", 0)),
     EarlyToken}

SecuredPaths ==
    {SecuredPrefix,
     SecuredPrefix \o <<"/", "user">>,
     <<"/", "api", "/", "%73ecured", "/", "user">>}

PublicPaths ==
    {<<"/", "api", "/", "auth">>,
     <<"/", "api", "/", "secured", "x">>,
     <<"/", "x", "/", "api", "/", "secured">>}

CoreArrival(path, auth, payload) ==
    [chain |-> Route(path), path |-> path, auth |-> auth, payload |-> payload,
     apikey |-> NoApiKey, ext_key |-> NoKeyRes]

CoreArrivals ==
    {CoreArrival(p, a, <<<<"{">>, <<"}">>>>) : p \in SecuredPaths, a \in Tokens}
        \cup {CoreArrival(p, a, <<>>) : p \in PublicPaths, a \in {NoAuth, EarlyToken}}

\* answers of a handler: a JSON document, an error, and a response that is
\* no JSON and sets two cookies
TwoCookies ==
    [status |-> 200,
     headers |-> [NoHeaders EXCEPT !["set-cookie"] = <<"a=1", "b=2">>,
                                   !["content-type"] = <<"text/plain">>],
     body |-> RawBody(<<"o", "k">>)]

CoreResponses == {Ok200, JsonResponse(404, JErrorText("Not found")), TwoCookies}

InitCore == InitCommon /\ is_dev \in BOOLEAN

NextCore ==
    \/ \E r \in Reqs : ArrivePipe(r, CoreArrivals)
    \/ \E r \in Reqs : LoggerBefore(r, FALSE)
    \/ \E r \in Reqs : AuthEnter(r)
    \/ \E r \in Reqs : AuthValidate(r, TRUE)
    \/ \E r \in Reqs : Handler(r, CoreResponses)
    \/ \E r \in Reqs : LoggerAfter(r, TRUE)
    \/ Tick

SpecCore == InitCore /\ [][NextCore]_vars

\* the logger around a handler of a public path, for request bodies of
\* every shape: no body, a JSON document in one chunk and in two, bytes
\* that are no JSON, empty chunks; the payload stream and the log table
\* can fail
AuditPayloads ==
    {<<>>,
     <<<<>>>>,
     <<<<"{", "}">>>>,
     <<<<"{">>, <<"}">>>>,
     <<<<"x">>>>,
     <<<<"{">>, <<>>, <<"x">>>>,
     <<<<"}">>, <<"{">>>>}

AuditArrivals == {CoreArrival(<<"/", "api", "/", "auth">>, NoAuth, p) : p \in AuditPayloads}

NextAudit ==
    \/ \E r \in 1..MaxPipeReqs : Arrive(r, AuditArrivals)
    \/ \E r \in Reqs : LoggerBefore(r, TRUE)
    \/ \E r \in Reqs : Handler(r, CoreResponses)
    \/ \E r \in Reqs : LoggerAfter(r, TRUE)

SpecAudit == InitCore /\ [][NextAudit]_vars

(***************************************************************************)
(* The stages that work on API keys: the global limiter, the extractor     *)
(* and the key verification around a handler, keys being revoked           *)
(* meanwhile.  Requests pass one at a time; the database can fail.         *)
(***************************************************************************)
\* the key verification reads the claims the extractor has put into the
\* extensions, so the extractor runs before it
KeyChain == <<"global", "extractor", "key">>

GoodKey == to_key(KeyClaims("u1", "basic", "k1", SecretOf("k1")))

\* an envelope made by someone who does not know the secret of k1
ForgedKey == to_key(KeyClaims("u2", "basic", "k1", SecretOf("k2")))

\* an envelope for a key that was never generated
UnknownKey == to_key(KeyClaims("u2", "basic", "k2", SecretOf("k2")))

KeyArrival(key, auth) ==
    [chain |-> KeyChain, path |-> <<"/", "api", "/", "check">>, auth |-> auth, payload |-> <<>>,
     apikey |-> key, ext_key |-> NoKeyRes]

KeyArrivals ==
    {KeyArrival(k, NoAuth) : k \in {NoApiKey, GoodKey, ForgedKey, UnknownKey,
                                    [GoodKey EXCEPT !.pfx = "pk_"],
                                    [GoodKey EXCEPT !.json = FALSE]}}
        \cup {KeyArrival(GoodKey, EarlyToken),
              KeyArrival(NoApiKey, Bearer(TRUE, FALSE, JwtClaims("u1", "cus_1", 0)))}

InitKey == InitCommon /\ is_dev = FALSE

NextKey ==
    \/ \E r \in Reqs : ArrivePipe(r, KeyArrivals)
    \/ \E r \in Reqs : Global(r)
    \/ \E r \in Reqs : Extractor(r)
    \/ \E r \in Reqs : KeyEnter(r)
    \/ \E r \in Reqs : KeyLookup(r, TRUE)
    \/ \E r \in Reqs : Handler(r, {Ok200})
    \/ \E k \in KeyIds : Revoke(k)
    \/ Tick

SpecKey == InitKey /\ [][NextKey]_vars

\* the global limiter alone around a handler, for concurrent requests with
\* and without credentials
GlobalArrivals ==
    {[KeyArrival(k, NoAuth) EXCEPT !.chain = <<"global">>] : k \in {NoApiKey, GoodKey, ForgedKey}}

NextGlobal ==
    \/ \E r \in Reqs : Arrive(r, GlobalArrivals)
    \/ \E r \in Reqs : Global(r)
    \/ \E r \in Reqs : Handler(r, {Ok200})
    \/ Tick

SpecGlobal == InitKey /\ [][NextGlobal]_vars

\* handlers of both crates that fail with an error of every kind and two
\* details, in a debug and in a release build
ErrorDetails == {"connection refused", "relation users does not exist"}

CommonKinds == InternalKinds \cup {"Unauthorized", "Forbidden", "NotFound", "BadRequest", "TooManyRequests"}

SubsKinds == CommonKinds \ {"TooManyRequests"}

HandlerErrors ==
    {[err |-> AppError(k, d), via |-> "common"] : k \in CommonKinds, d \in ErrorDetails}
        \cup {[err |-> AppError(k, d), via |-> "subs"] : k \in SubsKinds, d \in ErrorDetails}

ErrorArrivals ==
    {[chain |-> <<>>, path |-> <<"/", "api", "/", "auth">>, auth |-> NoAuth, payload |-> <<>>,
      apikey |-> NoApiKey, ext_key |-> NoKeyRes]}

NextErrors ==
    \/ \E r \in 1..MaxPipeReqs : Arrive(r, ErrorArrivals)
    \/ \E r \in Reqs : Handler(r, {Ok200})
    \/ \E r \in Reqs : HandlerFails(r, HandlerErrors)

SpecErrors == InitCore /\ [][NextErrors]_vars

\* the quota enforcer behind the extractor and the key verification, for
\* envelopes of every origin, keys being revoked meanwhile; requests pass
\* one at a time and neither the store nor the database fails
MeteredChain == <<"extractor", "key", "quota">>

\* the envelope of k1 with the user_id replaced, made by the holder of k1
BorrowedKey == to_key(KeyClaims("u2", "basic", "k1", SecretOf("k1")))

MeteredArrivals ==
    {[chain |-> MeteredChain, path |-> <<"/", "api", "/", "check">>, auth |-> NoAuth,
      payload |-> <<>>, apikey |-> k, ext_key |-> NoKeyRes] :
        k \in {GoodKey, ForgedKey, UnknownKey, BorrowedKey}}

NextMetered ==
    \/ \E r \in Reqs : ArrivePipe(r, MeteredArrivals)
    \/ \E r \in Reqs : Extractor(r)
    \/ \E r \in Reqs : KeyEnter(r)
    \/ \E r \in Reqs : KeyLookup(r, FALSE)
    \/ \E r \in Reqs : QuotaEnter(r, FALSE)
    \/ \E r \in Reqs : QuotaIncrDaily(r, FALSE)
    \/ \E r \in Reqs : QuotaExpire(r, FALSE)
    \/ \E r \in Reqs : QuotaDecr(r, FALSE)
    \/ \E r \in Reqs : QuotaIncrMonthly(r, FALSE)
    \/ \E r \in Reqs : Handler(r, {Ok200})
    \/ \E k \in KeyIds : Revoke(k)
    \/ Tick

SpecMetered == InitKey /\ [][NextMetered]_vars

\* the quota enforcer for two users on the metered plan, one of them with two
\* API keys; requests run concurrently, store commands can fail
UserArrivals ==
    {Extracted(QuotaChain, to_key(KeyClaims(uk[1], "basic", uk[2], SecretOf(uk[2])))) :
        uk \in {<<"u1", "k1">>, <<"u1", "k2">>, <<"u2", "k2">>}}

NextQuotaUsers ==
    \/ \E r \in 1..MaxPipeReqs : Arrive(r, UserArrivals)
    \/ \E r \in Reqs : QuotaEnter(r, TRUE)
    \/ \E r \in Reqs : QuotaIncrDaily(r, TRUE)
    \/ \E r \in Reqs : QuotaExpire(r, TRUE)
    \/ \E r \in Reqs : QuotaDecr(r, TRUE)
    \/ \E r \in Reqs : QuotaIncrMonthly(r, TRUE)
    \/ \E r \in Reqs : Handler(r, {Ok200})
    \/ Tick

SpecQuotaUsers == InitQuota /\ [][NextQuotaUsers]_vars

(***************************************************************************)
(* Claims about the quota enforcer.                                        *)
(***************************************************************************)
\* the stage called its inner service for this request
PassedStage(q, stage) == \E i \in 1..Len(q.ran) : q.ran[i] = stage /\ i < Len(q.ran)

\* the request has taken its instant and sent its daily INCR
Counted(q) == q.pc \in {"q_expire", "q_decr", "q_monthly", "handler", "done"} /\ q.limit > 0

\* the requests of a user counted on a UTC date
CountedOn(user, d) ==
    {r \in Reqs : Counted(req[r]) /\ QuotaUser(req[r]) = user /\ DateOf(req[r].now) = d}

\* those of them the enforcer forwarded
ForwardedOn(user, d) == {r \in CountedOn(user, d) : PassedStage(req[r], "quota")}

\* the requests between their daily INCR and their compensating DECR
Compensating(k) ==
    {r \in Reqs : /\ req[r].pc \in {"q_expire", "q_decr"}
                  /\ over_limit(req[r].count, req[r].limit)
                  /\ daily_key(QuotaUser(req[r]), req[r].now) = k}

Settled == \A r \in Reqs : req[r].pc \in {"idle", "handler", "done"}

\* C1: requests of one principal passing one at a time within one UTC day:
\* the first DailyLimit are forwarded (200), every later one is rejected with
\* 429, and the daily counter ends at DailyLimit.
C1_SequentialQuota ==
    \A u \in Users : \A d \in 0..MaxDay :
      DateOf(clock) = d =>
        /\ \A r \in CountedOn(u, d) :
             req[r].pc = "done" =>
               LET rank == Cardinality({o \in CountedOn(u, d) : req[o].seq <= req[r].seq})
               IN  IF rank <= DailyLimit
                   THEN PassedStage(req[r], "quota") /\ req[r].resp.status = 200
                   ELSE ~PassedStage(req[r], "quota") /\ req[r].resp.status = 429
        /\ (Settled /\ Cardinality(CountedOn(u, d)) >= DailyLimit)
              => Value(store, <<"quota", u, "daily", d>>, clock) = DailyLimit

\* C2: under every interleaving, at most DailyLimit requests of a principal
\* are forwarded within one UTC day, and once no request is at a store
\* operation the daily counter is at most DailyLimit.
C2_ConcurrentQuota ==
    \A u \in Users : \A d \in 0..MaxDay :
      DateOf(clock) = d =>
        /\ Cardinality(ForwardedOn(u, d)) <= DailyLimit
        /\ Settled => Value(store, <<"quota", u, "daily", d>>, clock) <= DailyLimit

\* C3: at every moment the daily counter exceeds DailyLimit by at most the
\* number of requests between their increment and their compensating decrement.
C3_BoundedOvershoot ==
    \A u \in Users : \A d \in 0..MaxDay :
      LET k == <<"quota", u, "daily", d>>
      IN  Value(store, k, clock) <= DailyLimit + Cardinality(Compensating(k))


(***************************************************************************)
(* Claims about the pipeline.                                              *)
(***************************************************************************)
\* the stage or the handler was entered for this request
InRan(q, stage) == \E i \in 1..Len(q.ran) : q.ran[i] = stage

\* C4: once a stage has rejected a request, no later stage and no handler
\* runs for it, and the client receives the status and the body the
\* rejecting stage produced.
C4_RejectionIsFinal ==
    \A r \in Reqs :
      LET q == req[r]
      IN  q.rej.status # 0 =>
            /\ ~InRan(q, "handler")
            /\ q.ran = SubSeq(q.chain, 1, q.pos)
            /\ q.pc = "done" => q.resp.status = q.rej.status /\ q.resp.body = q.rej.body

\* the extractor has parsed the X-API-KEY header of the request as an envelope
ValidEnvelope(q) == q.ext_key.tag = "ok"

SecretMatches(q) ==
    q.seen.present /\ verify_password(q.ext_key.claims.secret, q.seen.key_encrypted)

\* C5: a request with a well-formed envelope passes the key verification
\* only if the secret matches the stored hash and the stored key is active;
\* an unknown key, a secret that does not match and a revoked key are
\* answered 401 and the handler is not invoked.
C5_KeyVerification ==
    \A r \in Reqs :
      LET q == req[r]
      IN  ValidEnvelope(q) =>
            /\ PassedStage(q, "key") => SecretMatches(q) /\ q.seen.status = "active"
            /\ (/\ q.pc = "done"
                /\ InRan(q, "key")
                /\ q.seen.status # "error"
                /\ (~SecretMatches(q) \/ q.seen.status = "revoked"))
                   => q.resp.status = 401 /\ ~InRan(q, "handler")

\* C6: claims readable from the extensions of a request have been fully
\* verified: no stage attaches claims that are unverified or the record of
\* a verification that failed.
C6_OnlyVerifiedPrincipals ==
    \A r \in Reqs :
      LET q == req[r]
      IN  /\ q.ext_jwt.tag \in {"none", "ok"}
          /\ q.ext_token.tag \in {"none", "ok"}
          /\ q.ext_key.tag \in {"none", "ok"}
          /\ q.ext_key.tag = "ok" => SecretMatches(q) /\ q.seen.status = "active"

\* the authentication service has not accepted the bearer token of the
\* request and the middleware has answered
BearerFailed(q) ==
    /\ InRan(q, "auth")
    /\ q.auth.scheme = "Bearer"
    /\ q.rej.status # 0

C8_SecuredPrefix ==
    \A r \in Reqs :
      LET q == req[r]
      IN  IF routed_secured(q.path)
          THEN InRan(q, "handler") =>
                 /\ q.ext_token.tag = "ok"
                 /\ q.auth.scheme = "Bearer"
                 /\ validate_jwt(q.auth, q.now).tag = "ok"
          ELSE /\ q.ext_token.tag = "none" /\ q.rej.status = 0
               /\ \A i \in 1..Len(q.ran) : q.ran[i] \in {"logger", "handler"}
               /\ q.pc \in {"logger_after", "done"} => InRan(q, "handler")

\* the rows of the log written for a request
RecordsOf(r) == {i \in 1..Len(logs) : logs[i].rid = r}

C10_ResponseUnchanged ==
    \A r \in Reqs :
      LET q == req[r]
      IN  (q.pc = "done" /\ q.audit = "ok") =>
            /\ q.resp.status = q.inner.status
            /\ q.resp.headers = q.inner.headers
            /\ q.resp.body = q.inner.body

(***************************************************************************)
(* Claims about the request body and the failure of the audit.             *)
(***************************************************************************)
RECURSIVE Joined(_)
\* the bytes of a sequence of chunks, in their order
Joined(chunks) ==
    IF Len(chunks) = 0 THEN <<>>
    ELSE Joined(SubSeq(chunks, 1, Len(chunks) - 1)) \o chunks[Len(chunks)]

\* the bytes the client sent
SentBytes(q) == Joined(q.sent)

\* the bytes a handler reads from the payload of the request
ReadBytes(q) == Joined(q.payload)

\* C11: the body the handler reads after the logger is the concatenation of
\* the chunks the client sent, in one chunk; a body that is empty or no JSON
\* is recorded as null, a JSON document as its value, and no body whose
\* stream was delivered makes the logger answer in place of the handler.
C11_BodyRoundTrip ==
    \A r \in Reqs :
      LET q == req[r]
      IN  /\ InRan(q, "handler") =>
                /\ ReadBytes(q) = SentBytes(q)
                /\ Len(q.payload) = 1
                /\ q.request_body = IF SentBytes(q) = <<"{", "}">> THEN JObj ELSE JNull
          /\ \A i \in RecordsOf(r) :
                logs[i].request_body = IF SentBytes(q) = <<"{", "}">> THEN JObj ELSE JNull
          /\ (q.pc \notin {"idle", "logger"} /\ ~InRan(q, "handler"))
                => q.resp = PayloadErrorResponse

\* a body that is no JSON, sent in three chunks of which one is empty, and
\* a JSON document sent in two chunks have reached the handler and been
\* logged
C11_Witness ==
    \E r1 \in Reqs : \E r2 \in Reqs :
      /\ req[r1].sent = <<<<"{">>, <<>>, <<"x">>>> /\ req[r1].audit = "ok"
      /\ InRan(req[r1], "handler") /\ ReadBytes(req[r1]) = <<"{", "x">>
      /\ req[r2].sent = <<<<"{">>, <<"}">>>> /\ req[r2].audit = "ok"
      /\ InRan(req[r2], "handler")
      /\ \E i \in RecordsOf(r1) : logs[i].request_body = JNull
      /\ \E i \in RecordsOf(r2) : logs[i].request_body = JObj

\* C12: when the insert of the log row fails, the client still receives the
\* response of the handler, its status and its body unchanged.
C12_AuditFailureHarmless ==
    \A r \in Reqs :
      LET q == req[r]
      IN  (q.pc = "done" /\ InRan(q, "handler") /\ q.audit = "fail") =>
            /\ q.resp.status = q.inner.status
            /\ q.resp.body = q.inner.body

(***************************************************************************)
(* Claims about the plans of the quota enforcer.                           *)
(***************************************************************************)
\* the plan named by the key claims of the request, if it is configured
\* with limits that are numbers
HasLimits(q) ==
    /\ q.ext_key.tag = "ok"
    /\ q.ext_key.claims.plan_id \in PlanIds
    /\ plans[q.ext_key.claims.plan_id].some
    /\ parse_u64(plans[q.ext_key.claims.plan_id].daily_api_limit).ok
    /\ parse_u64(plans[q.ext_key.claims.plan_id].monthly_api_limit).ok

DailyLimitOf(q) == parse_u64(plans[q.ext_key.claims.plan_id].daily_api_limit).v

MonthlyLimitOf(q) == parse_u64(plans[q.ext_key.claims.plan_id].monthly_api_limit).v

ZeroLimit(q) == HasLimits(q) /\ (DailyLimitOf(q) = 0 \/ MonthlyLimitOf(q) = 0)

\* no key claims in the extensions, or a configured plan without metadata
Unmetered(q) ==
    \/ q.ext_key.tag # "ok"
    \/ /\ q.ext_key.claims.plan_id \in PlanIds
       /\ ~plans[q.ext_key.claims.plan_id].some

\* the enforcer hands the request to the handler without a store command
PassesUnmetered(q) ==
    /\ q.rej.status = 0
    /\ q.pc \in {"quota", "handler", "done"}
    /\ q.pc = "done" => InRan(q, "handler")

\* C13: a request of a principal whose plan has a daily or a monthly limit
\* of zero is never rejected by the enforcer and reaches the handler, and no
\* step of it sends a command to the store or changes a counter.
C13_ZeroLimitUnmetered ==
    /\ [](\A r \in Reqs : (req[r].pc # "idle" /\ ZeroLimit(req[r])) => PassesUnmetered(req[r]))
    /\ [][\A r \in Reqs : (req'[r] # req[r] /\ ZeroLimit(req'[r])) => store' = store]_vars

\* a request on a plan with a daily limit of zero and one on a plan with a
\* monthly limit of zero have both been answered by the handler
C13_Witness ==
    \E r1 \in Reqs : \E r2 \in Reqs :
      /\ req[r1].pc = "done" /\ req[r1].ext_key.claims.plan_id = "daily0"
      /\ req[r1].resp.status = 200
      /\ req[r2].pc = "done" /\ req[r2].ext_key.claims.plan_id = "monthly0"
      /\ req[r2].resp.status = 200

\* C14: a request without key claims, or of a plan without configured
\* limits, is never rejected by the enforcer and reaches the handler, and no
\* step of it changes a counter.
C14_NoPrincipalUnmetered ==
    /\ [](\A r \in Reqs : (req[r].pc # "idle" /\ Unmetered(req[r])) => PassesUnmetered(req[r]))
    /\ [][\A r \in Reqs : (req'[r] # req[r] /\ Unmetered(req'[r])) => store' = store]_vars

\* a request of a plan without metadata has been answered by the handler
\* while the daily counter of its user stood at the limit, and so has a
\* request without key claims
C14_Witness ==
    \E r1 \in Reqs : \E r2 \in Reqs :
      /\ req[r1].pc = "done" /\ req[r1].ext_key.claims.plan_id = "basic"
      /\ req[r2].pc = "done" /\ req[r2].resp.status = 200
      /\ req[r2].ext_key.claims.plan_id = "bare"
      /\ Value(store, daily_key("u1", clock), clock) = DailyLimit

(***************************************************************************)
(* Claims about the change of the day.                                     *)
(***************************************************************************)
\* the counters a request may touch: those of its user for the date and the
\* month of the instant it has taken
OwnKeys(q) ==
    {<<"quota", q.ext_key.claims.user_id, "daily", q.now \div TicksPerDay>>,
     <<"quota", q.ext_key.claims.user_id, "monthly", (q.now \div TicksPerDay) \div DaysPerMonth>>}

\* C15: a request is counted against the counter of the UTC date of its
\* instant: the counter of a day does not exist before the day has begun, the
\* request whose increment creates it is not rejected for its quota whatever
\* earlier days have counted, and no step of a request changes a counter of
\* another day.
C15_FreshCounterEachDay ==
    /\ [](\A u \in Users : \A d \in 0..MaxDay :
            d > clock \div TicksPerDay => ~store[<<"quota", u, "daily", d>>].present)
    /\ [](\A r \in Reqs : (Counted(req[r]) /\ req[r].count = 1) => req[r].rej.status # 429)
    /\ [][\A r \in Reqs : \A k \in StoreKeys :
            (req'[r] # req[r] /\ store'[k] # store[k]) => k \in OwnKeys(req'[r])]_vars

\* a request of the first day has used up the limit of that day, whose
\* counter is still in the store, and a request of the next day has been
\* counted as the first of its day and forwarded
C15_Witness ==
    \E r1 \in Reqs : \E r2 \in Reqs :
      /\ req[r1].now \div TicksPerDay = 0 /\ PassedStage(req[r1], "quota")
      /\ store[<<"quota", "u1", "daily", 0>>].present
      /\ store[<<"quota", "u1", "daily", 0>>].val = DailyLimit
      /\ req[r2].now \div TicksPerDay = 1 /\ req[r2].count = 1
      /\ PassedStage(req[r2], "quota")
      /\ store[<<"quota", "u1", "daily", 1>>].val = 1

(***************************************************************************)
(* Claims about the monthly ceiling.                                       *)
(***************************************************************************)
\* the requests of a user on a plan that took their instant in a month and
\* were forwarded by the enforcer
ForwardedInMonth(user, plan, m) ==
    {r \in Reqs : /\ req[r].ext_key.tag = "ok"
                  /\ req[r].ext_key.claims.user_id = user
                  /\ req[r].ext_key.claims.plan_id = plan
                  /\ req[r].limit > 0
                  /\ (req[r].now \div TicksPerDay) \div DaysPerMonth = m
                  /\ PassedStage(req[r], "quota")}

\* C16: of the requests of a principal whose plan has a monthly limit M >= 1
\* at most M are forwarded to the handler within one UTC month.
C16_MonthlyCeiling ==
    \A u \in Users : \A pl \in PlanIds : \A m \in 0..(MaxDay \div DaysPerMonth) :
      LET M == parse_u64(plans[pl].monthly_api_limit)
      IN  (plans[pl].some /\ M.ok /\ M.v >= 1)
            => Cardinality(ForwardedInMonth(u, pl, m)) <= M.v

(***************************************************************************)
(* Claims about the global limiter.                                        *)
(***************************************************************************)
\* the limiter has made its check for the request
Checked(q) == InRan(q, "global") /\ q.pc # "global"

\* no cell is left at instant now: the next cell is due more than a burst
\* ahead
BucketEmpty(state, now) ==
    state # 0 /\ now * PermitsPerSec + TicksPerSec * PermitsPerSec < state

\* the state of the limiter after one cell has been taken at instant now
OneCellTaken(state, now) ==
    LET t0 == now * PermitsPerSec
        cur == IF state = 0 THEN t0 + TicksPerSec ELSE state
    IN  (IF cur > t0 THEN cur ELSE t0) + TicksPerSec

\* C17: the check of the global limiter never waits: a request at the
\* limiter can always take its step, and that step either takes one cell
\* and forwards the request or, the bucket being empty, answers 429 with no
\* later stage invoked; which of the two depends on the state of the limiter
\* and the instant only, not on the credentials of the request.
C17_NonBlockingCheck ==
    /\ [](\A r \in Reqs : req[r].pc = "global" => ENABLED Global(r))
    /\ [](\A r \in Reqs :
            (Checked(req[r]) /\ ~PassedStage(req[r], "global")) =>
               /\ req[r].rej.status = 429
               /\ req[r].ran = <<"global">>
               /\ req[r].pc = "done" /\ req[r].resp = req[r].rej)
    /\ [][\A r \in Reqs :
            (req[r].pc = "global" /\ req'[r].pc # "global") =>
               IF BucketEmpty(tat, clock)
               THEN ~PassedStage(req'[r], "global") /\ tat' = tat
               ELSE PassedStage(req'[r], "global") /\ tat' = OneCellTaken(tat, clock)]_vars

\* at one instant a request without credentials has been forwarded and a
\* request with a valid key has been answered 429
C17_Witness ==
    \E r1 \in Reqs : \E r2 \in Reqs :
      /\ Checked(req[r1]) /\ Checked(req[r2]) /\ req[r1].now = req[r2].now
      /\ req[r1].apikey = NoApiKey /\ PassedStage(req[r1], "global")
      /\ req[r2].apikey = GoodKey /\ req[r2].rej.status = 429

\* the requests the limiter has checked at instant t
CheckedAt(t) == {r \in Reqs : Checked(req[r]) /\ req[r].now = t}

\* C18: of 2 * PermitsPerSec requests checked at the same instant at least
\* PermitsPerSec are answered 429.
C18_BurstRejections ==
    \A t \in Instants :
      Cardinality(CheckedAt(t)) >= 2 * PermitsPerSec =>
        Cardinality({r \in CheckedAt(t) : req[r].rej.status = 429}) >= PermitsPerSec

(***************************************************************************)
(* Claims about cancellation.                                              *)
(***************************************************************************)
\* the task of the request was dropped after its daily INCR had returned a
\* count above the limit and before its DECR was sent
DroppedUncompensated(q) == q.pc = "aborted" /\ q.limit > 0 /\ q.count > q.limit

\* C19: a request whose daily increment exceeded the limit always gets its
\* compensating decrement, also when its client disconnects: no dropped task
\* leaves its increment in the counter.
C19_CancelledStillCompensates ==
    \A r \in Reqs : ~DroppedUncompensated(req[r])



(***************************************************************************)
(* Redaction of internal errors.                                           *)
(***************************************************************************)
GenericBody == DocBody([t |-> "error", pre |-> "", msg |-> "Internal server error",
                        who |-> "", a |-> 0, b |-> 0])

FailedInternally(q) == q.pc = "done" /\ q.err.kind \in InternalKinds

ShowsDetail(q) == q.resp.body.kind = "doc" /\ q.resp.body.val.msg = q.err.msg

\* C20: the response for an internal error (Internal, Database, JWT, Reqwest,
\* Stripe) has status 500; outside development mode its body is the same
\* fixed generic message whatever the kind and the detail of the error, and
\* the detail is in the body only in development mode.
C20_InternalErrorsRedacted ==
    /\ \A r \in Reqs : FailedInternally(req[r]) =>
           /\ req[r].resp.status = 500
           /\ ~is_dev => req[r].resp.body = GenericBody
           /\ ShowsDetail(req[r]) => is_dev
    /\ \A r, s \in Reqs :
           (~is_dev /\ FailedInternally(req[r]) /\ FailedInternally(req[s]))
               => req[r].resp = req[s].resp

\* two handlers of a release build failed with internal errors of different
\* kinds and details and both answered 500 with the generic message
C20_Witness ==
    /\ ~is_dev
    /\ \E r, s \in Reqs :
         /\ FailedInternally(req[r]) /\ FailedInternally(req[s])
         /\ req[r].via = "common" /\ req[s].via = "common"
         /\ req[r].err.kind = "Database" /\ req[s].err.kind = "Stripe"
         /\ req[r].err.msg # req[s].err.msg
         /\ req[r].resp.body = GenericBody
         /\ req[s].resp.status = 500

(***************************************************************************)
(* Claims about the counters of the quota enforcer.                        *)
(***************************************************************************)
\* the request was counted above the limit of its plan
OverLimit(q) == q.limit > 0 /\ q.count > q.limit

DailyKeyOf(q) == <<"quota", q.ext_key.claims.user_id, "daily", DateOf(q.now)>>

MonthlyKeyOf(q) == <<"quota", q.ext_key.claims.user_id, "monthly", MonthOf(q.now)>>

\* the 429 of the enforcer names the count and the limit
Reports429(q, response) ==
    /\ response.status = 429
    /\ response.body.kind = "doc"
    /\ response.body.val.a = q.count /\ response.body.val.b = q.limit

\* C21: a request counted above its daily limit is answered 429 with the
\* limit and the count, its handler does not run, no step of it changes the
\* monthly counter, and its compensating decrement leaves the daily counter
\* at the value it had before the increment of the request.
C21_RejectionRestoresCounter ==
    /\ [](\A r \in Reqs :
            OverLimit(req[r]) =>
              /\ ~InRan(req[r], "handler")
              /\ req[r].pc = "done" => Reports429(req[r], req[r].resp))
    /\ [][\A r \in Reqs :
            (OverLimit(req'[r]) /\ req'[r] # req[r]) =>
              /\ store'[MonthlyKeyOf(req'[r])] = store[MonthlyKeyOf(req'[r])]
              /\ (req[r].pc = "q_decr" /\ req'[r].pc = "done") =>
                    Value(store', DailyKeyOf(req[r]), clock') = req[r].count - 1]_vars

\* no request is between two store commands of the enforcer
NoneAtStore == \A r \in Reqs : req[r].pc \notin {"q_incr", "q_expire", "q_decr", "q_monthly"}

DailyKeys == {<<"quota", u, "daily", d>> : u \in Users, d \in 0..MaxDay}

\* C22: once no request is between two store commands, every daily counter
\* in the store has an expiry, and the expiry is the midnight that ends the
\* UTC day of the counter, also after store failures.
C22_DailyCountersExpire ==
    NoneAtStore =>
      \A k \in DailyKeys :
        Live(store, k, clock) => store[k].exp = (k[4] + 1) * TicksPerDay

MonthlyKeys == {<<"quota", u, "monthly", m>> : u \in Users, m \in 0..(MaxDay \div DaysPerMonth)}

\* the first instant of the month after month m
EndOfMonth(m) == (m + 1) * DaysPerMonth * TicksPerDay

\* C23: the step that takes a request from the daily check to its handler
\* adds exactly one to the monthly counter of its user and month, and once
\* no request is between two store commands every monthly counter in the
\* store expires at the end of its month.
C23_MonthlyCountedWithExpiry ==
    /\ [][\A r \in Reqs :
            (req[r].pc = "q_monthly" /\ req'[r].pc = "handler") =>
               Value(store', MonthlyKeyOf(req[r]), clock')
                   = Value(store, MonthlyKeyOf(req[r]), clock) + 1]_vars
    /\ [](NoneAtStore =>
            \A k \in MonthlyKeys :
              Live(store, k, clock) => store[k].exp = EndOfMonth(k[4]))

\* the step of request r in which its monthly INCR gets no reply from the
\* store: the request leaves the command and the store is as before
MonthlyIncrFails(r) ==
    /\ req[r].pc = "q_monthly"
    /\ req'[r].pc \notin {"q_monthly", "aborted"}
    /\ store' = store

\* C24: a request whose monthly increment fails is answered with a 5xx and
\* not with 429, its handler does not run, and its daily increment stays in
\* the daily counter.
C24_MonthlyFailureIsInternal ==
    [][\A r \in Reqs :
          MonthlyIncrFails(r) =>
            /\ req'[r].pc = "done"
            /\ req'[r].resp.status >= 500
            /\ ~InRan(req'[r], "handler")
            /\ store'[DailyKeyOf(req[r])] = store[DailyKeyOf(req[r])]]_vars

\* the user each generated key was issued to (api_keys.user_id)
KeyOwner == [k1 |-> "u1", k2 |-> "u2"]

\* the envelope of the request has passed the secondary verification: the
\* row of its key was found, its secret matches the stored hash, the key is
\* active, and it is the key of the user the envelope names
Verified(q) ==
    /\ q.seen.present
    /\ verify_password(q.ext_key.claims.secret, q.seen.key_encrypted)
    /\ q.seen.status = "active"
    /\ KeyOwner[q.ext_key.claims.key_id] = q.ext_key.claims.user_id

\* C25: every step of the quota enforcer that changes a counter belongs to a
\* request whose envelope has passed the secondary verification; an envelope
\* that is forged or unverified never changes the counters of the user it names.
C25_OnlyVerifiedAreCounted ==
    [][\A r \in Reqs :
          (req[r].pc \in {"q_incr", "q_expire", "q_decr", "q_monthly"}
             /\ req'[r] # req[r] /\ store' # store)
              => Verified(req[r])]_vars

\* no request is on its way through the pipeline
NoneInFlight == \A r \in Reqs : req[r].pc \in {"idle", "done"}

\* the requests of a user the enforcer counted in a month and forwarded
ForwardedIn(user, m) ==
    {r \in Reqs : /\ Counted(req[r]) /\ QuotaUser(req[r]) = user
                  /\ MonthOf(req[r].now) = m /\ PassedStage(req[r], "quota")}

\* C26: while no request is in flight, the daily counter of a user equals
\* the number of its requests forwarded on the current UTC day and the
\* monthly counter the number forwarded in the current month; no counter is
\* ever negative.
C26_CountersMatchForwarded ==
    /\ \A k \in StoreKeys : Value(store, k, clock) >= 0
    /\ NoneInFlight =>
          \A u \in Users :
            /\ Value(store, <<"quota", u, "daily", DateOf(clock)>>, clock)
                  = Cardinality(ForwardedOn(u, DateOf(clock)))
            /\ Value(store, <<"quota", u, "monthly", MonthOf(clock)>>, clock)
                  = Cardinality(ForwardedIn(u, MonthOf(clock)))

\* C27: a step of a request changes no counter but the daily and the monthly
\* counter of the user_id of its key and of the period of its instant,
\* whichever key of the user it was made with: never a counter of another
\* user, and the same counters for every key of one user.
C27_KeyedByUserAndPeriod ==
    [][\A r \in Reqs :
          req'[r] # req[r] =>
            \A k \in StoreKeys :
              store'[k] # store[k] =>
                /\ k[2] = req[r].ext_key.claims.user_id
                /\ k \in {DailyKeyOf(req[r]), MonthlyKeyOf(req[r])}]_vars

\* two requests made with different keys of one user were counted 1 and 2 on
\* one daily counter, which holds 2, while the other user has no counter
C27_Witness ==
    \E r, s \in Reqs :
      /\ req[r].ext_key.claims.user_id = "u1" /\ req[s].ext_key.claims.user_id = "u1"
      /\ req[r].ext_key.claims.key_id # req[s].ext_key.claims.key_id
      /\ req[r].limit > 0 /\ req[s].limit > 0
      /\ DateOf(req[r].now) = DateOf(req[s].now)
      /\ req[r].count = 1 /\ req[s].count = 2
      /\ store[DailyKeyOf(req[s])].val = 2
      /\ \A k \in StoreKeys : k[2] = "u2" => ~store[k].present

\* the text is not the decimal notation of a number
NotANumber(s) == s = <<>> \/ \E i \in 1..Len(s) : ~IsDigit(s[i])

\* the plan of the key is not among the configured plans
UnknownPlan(q) == q.ext_key.tag = "ok" /\ q.ext_key.claims.plan_id \notin PlanIds

\* the plan of the key has metadata with a limit that is no number
BadLimit(q) ==
    /\ q.ext_key.tag = "ok"
    /\ q.ext_key.claims.plan_id \in PlanIds
    /\ plans[q.ext_key.claims.plan_id].some
    /\ \/ NotANumber(plans[q.ext_key.claims.plan_id].daily_api_limit)
       \/ NotANumber(plans[q.ext_key.claims.plan_id].monthly_api_limit)

\* the step in which the enforcer gives up on request r: the plan is unknown
\* or has a limit that is no number, or the request is neither handed on nor
\* brought to its INCR (no connection), or it leaves its INCR without a
\* count (the INCR failed)
CannotEvaluate(r) ==
    \/ req[r].pc = "quota" /\ req'[r].pc # "quota" /\ UnknownPlan(req[r])
    \/ req[r].pc = "quota" /\ req'[r].pc # "quota" /\ BadLimit(req[r])
    \/ req[r].pc = "quota" /\ req'[r].pc = "done"
    \/ req[r].pc = "q_incr" /\ req'[r].pc = "done"

JwtPrincipal(q) == q.ext_token.tag = "ok"

\* the API key of the request was verified against its row
KeyPrincipal(q) == Verified(q)

\* C29: the row written for a request that reached its handler with a
\* verified principal carries the user_id of the principal, that of the
\* bearer token before that of the API key, and the key_id of a verified
\* key; a row has an empty user_id only if the request had no verified
\* principal.
C29_AuditCarriesPrincipal ==
    \A i \in 1..Len(logs) :
      LET row == logs[i]
          q == req[row.rid]
      IN  InRan(q, "handler") =>
            /\ JwtPrincipal(q) => row.user_id = q.ext_token.claims.user_id
            /\ (KeyPrincipal(q) /\ ~JwtPrincipal(q)) => row.user_id = q.ext_key.claims.user_id
            /\ KeyPrincipal(q) => row.key_id = q.ext_key.claims.key_id
            /\ row.user_id = "" => ~JwtPrincipal(q) /\ ~KeyPrincipal(q)

(***************************************************************************)
(* Claims about the expiry of the daily counter.                           *)
(***************************************************************************)
\* the first instant of the UTC day after that of instant t
NextMidnight(t) == ((t \div TicksPerDay) + 1) * TicksPerDay

\* the instant a key given a timeout of secs seconds at instant t is gone
ExpiryAt(t, secs) == t + secs * TicksPerSec

\* C30: for the instant now of every request that sends the EXPIRE of its
\* daily counter, calculate_seconds_until_midnight(now) lies between 1 and
\* 86400, and a counter given this timeout at now is kept until the day of
\* now has ended and is gone within the first second of the next day.
C30_SecondsUntilMidnight ==
    [][\A r \in Reqs :
          (req[r].pc = "q_expire" /\ req'[r].pc # "q_expire") =>
            LET now == req[r].now
                secs == calculate_seconds_until_midnight(now)
            IN  /\ secs \in 1..SecondsPerDay
                /\ ExpiryAt(now, secs) >= NextMidnight(now)
                /\ ExpiryAt(now, secs) < NextMidnight(now) + TicksPerSec]_vars
====
